---- MODULE Spec2Model ----
(***************************************************************************)
(* Model of source/bcfnt.cpp of tex3ds: the BCFNT constructor (glyph       *)
(* indexing, CMAP range building, CWDH/sheet extraction) and               *)
(* BCFNT::serialize (layout computation, section emission, write loop).    *)
(*                                                                         *)
(* The FreeType face is the input.  It is drawn in Init and never changes: *)
(*   chars  the code points in the order FT_Get_First_Char /               *)
(*          FT_Get_Next_Char enumerate them (distinct, non-zero),          *)
(*   fails  the code points whose FT_Load_Glyph call returns an error,     *)
(*   bx     the horiBearingX (26.6 fixed point) of the face's glyphs.      *)
(* Pixel contents are owned by Magick/swizzle: a sheet is modelled by the  *)
(* cells that were composited into it, and its packed form by its length.  *)
(***************************************************************************)
EXTENDS Integers, Sequences, FiniteSets

\* ------------------------------------------------------------------ bounds
MaxChars == 3     \* longest enumeration of the small faces
BigRun == 171     \* length of the long consecutive faces (crosses one sheet)
MaxSpin == 2      \* extra iterations of the indexing loop that are explored
MaxWrites == 3    \* fwrite calls after which only a final result is explored

\* ------------------------------------------------------- program constants
Ceiling == 65535        \* std::numeric_limits<std::uint16_t>::max()
CellsPerSheet == 170
Columns == 10
CellWidth == 24
CellHeight == 30
SheetWidth == 256
SheetHeight == 512
CMAP_TYPE_DIRECT == 0

U8 == 256
U16 == 65536

\* ------------------------------------------------------------- the inputs
SmallCodes == {32, 63, 64, 65, 65533, 65535}
BigBase == 256

Injective(s) == \A i, j \in DOMAIN s : s[i] = s[j] => i = j
Range(s) == {s[i] : i \in DOMAIN s}

SmallEnumerations ==
  {s \in UNION {[1..n -> SmallCodes] : n \in 0..MaxChars} : Injective(s)}

BigEnumerations == {[i \in 1..BigRun |-> BigBase + i - 1]}

\* the glyphs of a long face whose load may fail: around both ends of a sheet
BigFailCandidates ==
  {BigBase, BigBase + 1, BigBase + CellsPerSheet - 1, BigBase + CellsPerSheet}

BearingXs == {-8257, -1, 96}

Faces ==
  {[chars |-> s, fails |-> f, bx |-> b] :
       s \in SmallEnumerations, f \in SUBSET SmallCodes, b \in BearingXs}
  \cup
  {[chars |-> s, fails |-> f, bx |-> b] :
       s \in BigEnumerations, f \in SUBSET BigFailCandidates, b \in {-1}}

ValidFace(fc) == fc.fails \subseteq Range(fc.chars)

\* face->size->metrics and face->bbox, 26.6 fixed point
FaceMetrics ==
  [height |-> 1950, yMax |-> 1700, yMin |-> -420, xMax |-> 1500, xMin |-> -100,
   max_advance |-> 1600, ascender |-> 1530]

VARIABLES
  face,        \* FT_Face (input)
  pc,          \* position in the constructor / serialize
  code,        \* FT_ULong code of the indexing loop
  faceIndex,   \* FT_UInt faceIndex of the indexing loop
  cfntIndex,   \* std::uint16_t cfntIndex
  faceMap,     \* std::map<FT_ULong, CharMap>
  it,          \* iterator of the range-building loop (0 = end)
  ci,          \* position in cmaps of the extraction loop
  gcode,       \* std::uint16_t code of the extraction loop
  sheet,       \* std::unique_ptr<Magick::Image>: live or null, and its composited cells
  lineFeed, height, width, maxWidth, ascent, altIndex,
  cmaps, widths, sheetData, numSheets,
  output,      \* std::vector<std::uint8_t> output, up to the sheet bytes
  sheetOut,    \* number of sheet bytes appended to output
  fileSize, finfOffset, tglpOffset, cwdhOffset, cmapOffset, sheetOffset,
  numBlocks,
  si,          \* position in cmaps of the serialize loop
  fp,          \* FILE *fp: "none", "open" or "closed"
  offset,      \* std::size_t offset of the write loop
  result,      \* return value of serialize: "none", "true" or "false"
  closeRc,     \* what std::fclose returned at line 418: "none", "ok" or "eof"
  calls,       \* history: every fwrite call, its arguments and its result
  iters,       \* history: executions of the indexing loop's body
  widthCodes,  \* history: the code point behind each entry of widths
  placed       \* history: every composite, <<cfntIndex, sheet number, x, y>>

ctorVars == <<code, faceIndex, cfntIndex, faceMap, it, ci, gcode, sheet>>
fontVars == <<lineFeed, height, width, maxWidth, ascent, altIndex,
              cmaps, widths, sheetData, numSheets>>
layoutVars == <<fileSize, finfOffset, tglpOffset, cwdhOffset, cmapOffset,
                sheetOffset, numBlocks>>
serVars == <<output, sheetOut, layoutVars, si, fp, offset, result, closeRc,
             calls>>
histVars == <<iters, widthCodes, placed>>
vars == <<face, pc, ctorVars, fontVars, serVars, histVars>>

\* ---------------------------------------------------------------- FreeType
PosIn(s, c) == CHOOSE i \in DOMAIN s : s[i] = c

\* glyph index of a code point in the face
FT_Get_Char_Index(fc, c) == PosIn(fc.chars, c)

FT_Get_First_Char(fc) ==
  IF fc.chars = <<>> THEN [code |-> 0, faceIndex |-> 0]
  ELSE [code |-> fc.chars[1], faceIndex |-> 1]

FT_Get_Next_Char(fc, c) ==
  LET i == PosIn(fc.chars, c) IN
  IF i = Len(fc.chars) THEN [code |-> 0, faceIndex |-> 0]
  ELSE [code |-> fc.chars[i + 1], faceIndex |-> i + 1]

\* FT_Load_Glyph(face, faceIndex, FT_LOAD_RENDER): TRUE when it returns an error
FT_Load_Glyph_Error(fc, fi) == fc.chars[fi] \in fc.fails

\* face->glyph->metrics after a successful load, 26.6 fixed point
GlyphMetrics(fc, fi) ==
  LET c == fc.chars[fi] IN
  [horiBearingX |-> fc.bx,
   width        |-> 64 * (c % 256) + 63,
   horiAdvance  |-> 64 * ((c % 256) + 90) + 32]

\* ------------------------------------------------------------- conversions
\* v >> 6 on a signed value: arithmetic shift
Shr6TowardZero(v) == IF v >= 0 THEN v \div 64 ELSE -((-v) \div 64)
Shr6(v) == v \div 64

NarrowU8(v) == v % U8
NarrowS8(v) == LET m == v % U8 IN IF m >= 128 THEN m - U8 ELSE m

CharWidthInfo(m) ==
  [left       |-> NarrowS8(Shr6(m.horiBearingX)),
   glyphWidth |-> NarrowU8(Shr6(m.width)),
   charWidth  |-> NarrowU8(Shr6(m.horiAdvance))]

\* ------------------------------------------------------------------- maps
EmptyMap == [c \in {} |-> 0]
Keys(m) == DOMAIN m
MinOf(S) == CHOOSE x \in S : \A y \in S : x <= y
\* std::map iteration: begin() and ++it, 0 standing for end()
MapBegin(m) == IF Keys(m) = {} THEN 0 ELSE MinOf(Keys(m))
MapNext(m, k) ==
  LET above == {x \in Keys(m) : x > k} IN IF above = {} THEN 0 ELSE MinOf(above)

NextIndexStuck(i) == i
NextIndex(i) == (i + 1) % U16

\* faceMap.emplace(code, CharMap{code, faceIndex, cfntIndex}): no effect on a
\* key that is already present
Emplace(m, c, fi, idx) ==
  IF c \in Keys(m) THEN m
  ELSE [k \in Keys(m) \cup {c} |->
          IF k = c THEN [code |-> c, faceIndex |-> fi, cfntIndex |-> idx]
          ELSE m[k]]

\* the replacement character of lines 138-146
AltIndex(m) ==
  IF 65533 \in Keys(m) THEN m[65533].cfntIndex
  ELSE IF 63 \in Keys(m) THEN m[63].cfntIndex
  ELSE IF 32 \in Keys(m) THEN m[32].cfntIndex
  ELSE 0

\* ------------------------------------------------------------------ ranges
StartsNewRangeNever(cm, c) == c = 0 \/ cm = <<>>
StartsNewRange(cm, c) ==
  c = 0 \/ cm = <<>> \/ cm[Len(cm)].codeEnd # c - 1

CollectMapping(cm, c, charMap) ==
  IF StartsNewRange(cm, c)
  THEN Append(cm, [codeBegin |-> c % U16, codeEnd |-> c % U16,
                   data |-> [offset |-> charMap.cfntIndex],
                   mappingMethod |-> CMAP_TYPE_DIRECT])
  ELSE [cm EXCEPT ![Len(cm)].codeEnd = c % U16]

\* the body is empty in the source
coalesceCMAP(cm) == cm

\* ------------------------------------------------------------------ sheets
SheetBytes == (SheetWidth * SheetHeight) \div 2
NullSheet == [live |-> FALSE, cells |-> {}]
NewSheet == [live |-> TRUE, cells |-> {}]
\* appendSheet: the packed sheet, w*h/2 bytes, represented by its cells
appendSheet(data, sh) == Append(data, sh)
SheetDataSize(data) == Len(data) * SheetBytes

Init ==
  /\ face \in {fc \in Faces : ValidFace(fc)}
  /\ pc = "begin"
  /\ code = 0 /\ faceIndex = 0 /\ cfntIndex = 0
  /\ faceMap = EmptyMap
  /\ it = 0 /\ ci = 0 /\ gcode = 0
  /\ sheet = NullSheet
  /\ lineFeed = 0 /\ height = 0 /\ width = 0 /\ maxWidth = 0 /\ ascent = 0
  /\ altIndex = 0
  /\ cmaps = <<>> /\ widths = <<>> /\ sheetData = <<>> /\ numSheets = 0
  /\ output = <<>> /\ sheetOut = 0
  /\ fileSize = 0 /\ finfOffset = 0 /\ tglpOffset = 0 /\ cwdhOffset = 0
  /\ cmapOffset = 0 /\ sheetOffset = 0 /\ numBlocks = 0
  /\ si = 0 /\ fp = "none" /\ offset = 0 /\ result = "none" /\ closeRc = "none"
  /\ calls = <<>>
  /\ iters = 0 /\ widthCodes = <<>> /\ placed = {}

\* lines 112-122
Begin ==
  /\ pc = "begin"
  /\ lineFeed' = Shr6(FaceMetrics.height)
  /\ height' = Shr6(FaceMetrics.yMax - FaceMetrics.yMin)
  /\ width' = Shr6(FaceMetrics.xMax - FaceMetrics.xMin)
  /\ maxWidth' = Shr6(FaceMetrics.max_advance)
  /\ ascent' = Shr6(FaceMetrics.ascender)
  /\ code' = FT_Get_First_Char(face).code
  /\ faceIndex' = FT_Get_First_Char(face).faceIndex
  /\ cfntIndex' = 0
  /\ pc' = "index"
  /\ UNCHANGED <<face, faceMap, it, ci, gcode, sheet, altIndex,
                 cmaps, widths, sheetData, numSheets, serVars, histVars>>

\* lines 123-127: the body on a code point at or above the ceiling
IndexSkip ==
  /\ pc = "index"
  /\ code # 0
  /\ code >= Ceiling
  /\ iters < Len(face.chars) + MaxSpin
  /\ iters' = iters + 1
  /\ UNCHANGED <<face, pc, ctorVars, fontVars, serVars, widthCodes, placed>>

\* lines 123-132: the body on an in-range code point
IndexInsert ==
  /\ pc = "index"
  /\ code # 0
  /\ code < Ceiling
  /\ IF cfntIndex = Ceiling
     THEN /\ pc' = "aborted"
          /\ UNCHANGED <<code, faceIndex, cfntIndex, faceMap>>
     ELSE /\ faceMap' = Emplace(faceMap, code, faceIndex, cfntIndex)
          /\ cfntIndex' = NextIndex(cfntIndex)
          /\ code' = FT_Get_Next_Char(face, code).code
          /\ faceIndex' = FT_Get_Next_Char(face, code).faceIndex
          /\ pc' = "index"
  /\ iters' = iters + 1
  /\ UNCHANGED <<face, it, ci, gcode, sheet, fontVars, serVars, widthCodes, placed>>

\* lines 123, 135-146: loop exit, empty check, replacement character
IndexDone ==
  /\ pc = "index"
  /\ code = 0
  /\ IF Keys(faceMap) = {}
     THEN pc' = "constructed" /\ UNCHANGED <<altIndex, it>>
     ELSE /\ altIndex' = AltIndex(faceMap)
          /\ it' = MapBegin(faceMap)
          /\ pc' = "ranges"
  /\ UNCHANGED <<face, code, faceIndex, cfntIndex, faceMap, ci, gcode, sheet,
                 lineFeed, height, width, maxWidth, ascent,
                 cmaps, widths, sheetData, numSheets, serVars, histVars>>

\* lines 149-164, one iteration
RangeStep ==
  /\ pc = "ranges"
  /\ it # 0
  /\ cmaps' = CollectMapping(cmaps, it, faceMap[it])
  /\ it' = MapNext(faceMap, it)
  /\ UNCHANGED <<face, pc, code, faceIndex, cfntIndex, faceMap, ci, gcode, sheet,
                 lineFeed, height, width, maxWidth, ascent, altIndex,
                 widths, sheetData, numSheets, serVars, histVars>>

\* lines 149, 167-173: loop exit and entry of the extraction loops
RangeDone ==
  /\ pc = "ranges"
  /\ it = 0
  /\ ci' = 1
  /\ gcode' = cmaps[1].codeBegin
  /\ pc' = "glyph"
  /\ UNCHANGED <<face, code, faceIndex, cfntIndex, faceMap, it, sheet,
                 fontVars, serVars, histVars>>

\* ++code of line 173 and the step to the next cmap of line 171
AdvanceGlyph ==
  LET n == (gcode + 1) % U16 IN
  IF n <= cmaps[ci].codeEnd
  THEN ci' = ci /\ gcode' = n /\ pc' = "glyph"
  ELSE IF ci < Len(cmaps)
       THEN ci' = ci + 1 /\ gcode' = cmaps[ci + 1].codeBegin /\ pc' = "glyph"
       ELSE ci' = ci + 1 /\ gcode' = n /\ pc' = "finish"

\* lines 176-181: the load fails
GlyphLoadFail ==
  /\ pc = "glyph"
  /\ FT_Load_Glyph_Error(face, faceMap[gcode].faceIndex)
  /\ AdvanceGlyph
  /\ UNCHANGED <<face, code, faceIndex, cfntIndex, faceMap, it, sheet,
                 fontVars, serVars, histVars>>

SheetSlot(idx) == idx % CellsPerSheet
SheetX(idx) == (SheetSlot(idx) % Columns) * CellWidth
SheetY(idx) == (SheetSlot(idx) \div Columns) * CellHeight

\* lines 191-200: the sheet roll-over
RollsOver(idx) == idx % CellsPerSheet = 0

\* lines 176-233: the load succeeds and a sheet is (or comes) in progress
GlyphRender ==
  /\ pc = "glyph"
  /\ ~FT_Load_Glyph_Error(face, faceMap[gcode].faceIndex)
  /\ LET idx == faceMap[gcode].cfntIndex
         m == GlyphMetrics(face, faceMap[gcode].faceIndex)
         rolled == RollsOver(idx) /\ sheet.live
         cur == IF RollsOver(idx) THEN NewSheet ELSE sheet
         sheetNo == IF rolled THEN numSheets + 1 ELSE numSheets
     IN /\ RollsOver(idx) \/ sheet.live
        /\ widths' = Append(widths, CharWidthInfo(m))
        /\ widthCodes' = Append(widthCodes, gcode)
        /\ sheetData' = IF rolled THEN appendSheet(sheetData, sheet) ELSE sheetData
        /\ numSheets' = sheetNo
        /\ IF SheetX(idx) + CellWidth < SheetWidth
              /\ SheetY(idx) + CellHeight < SheetHeight
           THEN /\ sheet' = [cur EXCEPT !.cells = @ \cup {<<SheetSlot(idx), gcode>>}]
                /\ placed' = placed \cup {<<idx, sheetNo, SheetX(idx), SheetY(idx)>>}
                /\ AdvanceGlyph
           ELSE /\ pc' = "aborted"
                /\ sheet' = cur
                /\ UNCHANGED <<ci, gcode, placed>>
  /\ UNCHANGED <<face, code, faceIndex, cfntIndex, faceMap, it,
                 lineFeed, height, width, maxWidth, ascent, altIndex, cmaps,
                 serVars, iters>>

\* lines 176-202: the load succeeds, no sheet is in progress and none is made:
\* assert(sheet) aborts; without the assertion *sheet dereferences null
GlyphNoSheet ==
  /\ pc = "glyph"
  /\ ~FT_Load_Glyph_Error(face, faceMap[gcode].faceIndex)
  /\ ~RollsOver(faceMap[gcode].cfntIndex)
  /\ ~sheet.live
  /\ widths' = Append(widths, CharWidthInfo(GlyphMetrics(face, faceMap[gcode].faceIndex)))
  /\ widthCodes' = Append(widthCodes, gcode)
  /\ pc' \in {"aborted", "crashed"}
  /\ UNCHANGED <<face, ctorVars, lineFeed, height, width, maxWidth, ascent,
                 altIndex, cmaps, sheetData, numSheets, serVars, iters, placed>>

\* lines 237-243
Finish ==
  /\ pc = "finish"
  /\ IF sheet.live
     THEN sheetData' = appendSheet(sheetData, sheet) /\ numSheets' = numSheets + 1
     ELSE UNCHANGED <<sheetData, numSheets>>
  /\ cmaps' = coalesceCMAP(cmaps)
  /\ pc' = "constructed"
  /\ UNCHANGED <<face, ctorVars, lineFeed, height, width, maxWidth, ascent,
                 altIndex, widths, serVars, histVars>>

\* --------------------------------------------------------------- serialize
\* operator<< on the output vector; the values stay below 2^31
Magic(a, b, c, d) == <<a, b, c, d>>
LE8(v) == <<v % U8>>
LE16(v) == <<v % U8, (v \div U8) % U8>>
LE32(v) == <<v % U8, (v \div U8) % U8, (v \div U16) % U8, (v \div (U16 * U8)) % U8>>

CFNT_MAGIC == Magic(67, 70, 78, 84)
FINF_MAGIC == Magic(70, 73, 78, 70)
TGLP_MAGIC == Magic(84, 71, 76, 80)
CWDH_MAGIC == Magic(67, 87, 68, 72)
CMAP_MAGIC == Magic(67, 77, 65, 80)

CfntHeaderSize == 20    \* 0x14
FinfSize == 32          \* 0x20
TglpSize == 32          \* 0x20
CwdhHeaderSize == 16    \* 0x10
CwdhEntrySize == 3
CmapHeaderSize == 20    \* 0x14
CmapDirectSize == 2     \* 0x2
OffsetBias == 8

\* output.size()
OutSize == Len(output) + sheetOut

\* lines 266-281: -1 stands for the abort() of an unsupported mapping method
RECURSIVE CmapBytes(_)
CmapBytes(cm) ==
  IF cm = <<>> THEN 0
  ELSE LET rest == CmapBytes(Tail(cm)) IN
       IF Head(cm).mappingMethod # CMAP_TYPE_DIRECT \/ rest < 0 THEN -1
       ELSE CmapHeaderSize + CmapDirectSize + rest

CwdhBytesTwoPerEntry(ws) == CwdhHeaderSize + 2 * Len(ws)
CwdhBytes(ws) == CwdhHeaderSize + CwdhEntrySize * Len(ws)

\* lines 250-287
Layout(ws, cm, data) ==
  LET finf == CfntHeaderSize
      tglp == finf + FinfSize
      cwdh == tglp + TglpSize
      cmap == cwdh + CwdhBytes(ws)
      shts == cmap + CmapBytes(cm)
  IN [finfOffset |-> finf, tglpOffset |-> tglp, cwdhOffset |-> cwdh,
      cmapOffset |-> cmap, sheetOffset |-> shts,
      fileSize |-> shts + SheetDataSize(data),
      numBlocks |-> 3 + Len(cm)]

SerializeLayout ==
  /\ pc = "constructed"
  /\ IF CmapBytes(cmaps) < 0
     THEN pc' = "aborted" /\ UNCHANGED layoutVars
     ELSE LET l == Layout(widths, cmaps, sheetData) IN
          /\ finfOffset' = l.finfOffset /\ tglpOffset' = l.tglpOffset
          /\ cwdhOffset' = l.cwdhOffset /\ cmapOffset' = l.cmapOffset
          /\ sheetOffset' = l.sheetOffset /\ fileSize' = l.fileSize
          /\ numBlocks' = l.numBlocks
          /\ pc' = "cfnt"
  /\ output' = <<>> /\ sheetOut' = 0
  /\ UNCHANGED <<face, ctorVars, fontVars, si, fp, offset, result, closeRc, calls,
                 histVars>>

\* lines 290-295
CfntHeader(size, blocks) ==
  CFNT_MAGIC \o LE16(65279) \o LE16(CfntHeaderSize) \o LE32(3)
    \o LE32(size) \o LE32(blocks)

WriteCFNT ==
  /\ pc = "cfnt"
  /\ output' = output \o CfntHeader(fileSize, numBlocks)
  /\ pc' = "finf"
  /\ UNCHANGED <<face, ctorVars, fontVars, sheetOut, layoutVars, si, fp, offset,
                 result, closeRc, calls, histVars>>

\* lines 299-314
FinfBlock(tglp, cwdh, cmap) ==
  FINF_MAGIC \o LE32(FinfSize) \o LE8(1) \o LE8(lineFeed) \o LE16(altIndex)
    \o LE8(0) \o LE8(0) \o LE8(0) \o LE8(1)
    \o LE32(tglp + OffsetBias) \o LE32(cwdh + OffsetBias) \o LE32(cmap + OffsetBias)
    \o LE8(height) \o LE8(width) \o LE8(ascent) \o LE8(0)

WriteFINF ==
  /\ pc = "finf"
  /\ IF OutSize # finfOffset
     THEN pc' = "assert_failed" /\ UNCHANGED output
     ELSE /\ output' = output \o FinfBlock(tglpOffset, cwdhOffset, cmapOffset)
          /\ pc' = "tglp"
  /\ UNCHANGED <<face, ctorVars, fontVars, sheetOut, layoutVars, si, fp, offset,
                 result, closeRc, calls, histVars>>

\* lines 318-331
TglpBlock(dataSize, sheets, shts) ==
  TGLP_MAGIC \o LE32(TglpSize) \o LE8(CellWidth) \o LE8(CellHeight)
    \o LE8(ascent) \o LE8(maxWidth) \o LE32(dataSize) \o LE16(sheets)
    \o LE16(11) \o LE16(10) \o LE16(10) \o LE16(SheetWidth) \o LE16(SheetHeight)
    \o LE32(shts)

WriteTGLP ==
  /\ pc = "tglp"
  /\ IF OutSize # tglpOffset
     THEN pc' = "assert_failed" /\ UNCHANGED output
     ELSE /\ output' = output \o TglpBlock(SheetDataSize(sheetData), numSheets, sheetOffset)
          /\ pc' = "cwdh"
  /\ UNCHANGED <<face, ctorVars, fontVars, sheetOut, layoutVars, si, fp, offset,
                 result, closeRc, calls, histVars>>

\* lines 336-347
WidthBytes(info) == LE8(info.left) \o LE8(info.glyphWidth) \o LE8(info.charWidth)
CwdhData(ws) ==
  [k \in 1..(3 * Len(ws)) |-> WidthBytes(ws[((k - 1) \div 3) + 1])[((k - 1) % 3) + 1]]
CwdhBlock(ws) ==
  CWDH_MAGIC \o LE32(CwdhHeaderSize + 3 * Len(ws)) \o LE16(0) \o LE16(Len(ws))
    \o LE32(0) \o CwdhData(ws)

WriteCWDH ==
  /\ pc = "cwdh"
  /\ IF OutSize # cwdhOffset
     THEN pc' = "assert_failed" /\ UNCHANGED <<output, si>>
     ELSE /\ output' = output \o CwdhBlock(widths)
          /\ si' = 1
          /\ pc' = "cmap"
  /\ UNCHANGED <<face, ctorVars, fontVars, sheetOut, layoutVars, fp, offset,
                 result, closeRc, calls, histVars>>

\* lines 354-382, and line 367 for the link
NextCmapOffsetUnbiased(at, size) == at + size
NextCmapOffset(at, size) == at + size + OffsetBias

CmapBlock(cmap, at, isLast) ==
  LET size == CmapHeaderSize + CmapDirectSize IN
  CMAP_MAGIC \o LE32(size) \o LE16(cmap.codeBegin) \o LE16(cmap.codeEnd)
    \o LE16(cmap.mappingMethod) \o LE16(0)
    \o (IF isLast THEN LE32(0) ELSE LE32(NextCmapOffset(at, size)))
    \o LE16(cmap.data.offset)

\* lines 349-385, one iteration
WriteCMAP ==
  /\ pc = "cmap"
  /\ si <= Len(cmaps)
  /\ IF OutSize # cmapOffset
     THEN pc' = "assert_failed" /\ UNCHANGED <<output, cmapOffset, si>>
     ELSE IF cmaps[si].mappingMethod # CMAP_TYPE_DIRECT
     THEN pc' = "aborted" /\ UNCHANGED <<output, cmapOffset, si>>
     ELSE /\ output' = output \o CmapBlock(cmaps[si], cmapOffset, si = Len(cmaps))
          /\ cmapOffset' = cmapOffset + CmapHeaderSize + CmapDirectSize
          /\ si' = si + 1
          /\ pc' = "cmap"
  /\ UNCHANGED <<face, ctorVars, fontVars, sheetOut, fileSize, finfOffset,
                 tglpOffset, cwdhOffset, sheetOffset, numBlocks, fp, offset,
                 result, closeRc, calls, histVars>>

\* lines 387-391
WriteSheets ==
  /\ pc = "cmap"
  /\ si > Len(cmaps)
  /\ IF OutSize # sheetOffset
     THEN pc' = "assert_failed" /\ UNCHANGED sheetOut
     ELSE /\ sheetOut' = sheetOut + SheetDataSize(sheetData)
          /\ pc' = IF OutSize + SheetDataSize(sheetData) # fileSize
                   THEN "assert_failed" ELSE "open"
  /\ UNCHANGED <<face, ctorVars, fontVars, output, layoutVars, si, fp, offset,
                 result, closeRc, calls, histVars>>

\* lines 393-397
Fopen ==
  /\ pc = "open"
  /\ \E ok \in BOOLEAN :
       IF ok THEN fp' = "open" /\ offset' = 0 /\ pc' = "write" /\ UNCHANGED result
       ELSE result' = "false" /\ pc' = "returned" /\ UNCHANGED <<fp, offset>>
  /\ UNCHANGED <<face, ctorVars, fontVars, output, sheetOut, layoutVars, si,
                 closeRc, calls, histVars>>

\* the results of std::fwrite(ptr, 1, count, fp) that are explored: the number
\* of bytes accepted and std::ferror(fp) after the call.  The indicator may be
\* set after a call that accepted every byte (the bytes were buffered and the
\* flush failed).
FwriteResults(count) ==
  {r \in [rc : {0, 1, count \div 2, count - 1, count}, err : BOOLEAN] :
     r.rc \in 0..count}

\* line 401-403
WriteFailed(rc, count, err) == rc # count /\ (rc = 0 \/ err)

AdvanceStuck(off, rc) == off
Advance(off, rc) == off + rc

\* lines 398-416, one iteration; the result of the std::fclose of line 410 is
\* discarded
Fwrite ==
  /\ pc = "write"
  /\ offset < OutSize
  /\ \E r \in FwriteResults(OutSize - offset) :
       /\ Len(calls) + 1 >= MaxWrites =>
            (r.rc = OutSize - offset \/ WriteFailed(r.rc, OutSize - offset, r.err))
       /\ calls' = Append(calls, [ptr |-> offset, count |-> OutSize - offset,
                                  rc |-> r.rc, err |-> r.err])
       /\ IF WriteFailed(r.rc, OutSize - offset, r.err)
          THEN fp' = "closed" /\ result' = "false" /\ pc' = "returned"
               /\ UNCHANGED offset
          ELSE offset' = Advance(offset, r.rc) /\ pc' = "write"
               /\ UNCHANGED <<fp, result>>
  /\ UNCHANGED <<face, ctorVars, fontVars, output, sheetOut, layoutVars, si,
                 closeRc, histVars>>

\* lines 398, 418-424
Fclose ==
  /\ pc = "write"
  /\ offset >= OutSize
  /\ fp' = "closed"
  /\ \E rc \in {"ok", "eof"} :
       closeRc' = rc /\ result' = IF rc = "ok" THEN "true" ELSE "false"
  /\ pc' = "returned"
  /\ UNCHANGED <<face, ctorVars, fontVars, output, sheetOut, layoutVars, si,
                 offset, calls, histVars>>

Next ==
  \/ Begin
  \/ IndexSkip
  \/ IndexInsert
  \/ IndexDone
  \/ RangeStep
  \/ RangeDone
  \/ GlyphLoadFail
  \/ GlyphRender
  \/ GlyphNoSheet
  \/ Finish
  \/ SerializeLayout
  \/ WriteCFNT
  \/ WriteFINF
  \/ WriteTGLP
  \/ WriteCWDH
  \/ WriteCMAP
  \/ WriteSheets
  \/ Fopen
  \/ Fwrite
  \/ Fclose

Spec == Init /\ [][Next]_vars

\* ------------------------------------------------------------- properties
CtorPcs == {"begin", "index", "ranges", "glyph", "finish"}
Halted == pc \in {"aborted", "crashed", "assert_failed"}
\* the constructor has returned
Constructed == pc \notin CtorPcs /\ ~Halted
\* the indexing loop has been left
Indexed == pc \notin {"begin", "index"}
\* the range-building loop has been left
RangesBuilt == pc \notin {"begin", "index", "ranges"}
\* output holds the whole file
BufferBuilt == pc \in {"open", "write", "returned"}

InRange(c) == c < Ceiling
Ascending(s) == \A i \in 1..(Len(s) - 1) : s[i] < s[i + 1]
Indices == {faceMap[c].cfntIndex : c \in Keys(faceMap)}
MetricsOfCode(c) == GlyphMetrics(face, FT_Get_Char_Index(face, c))

\* C1: the constructor terminates on every enumeration: the indexing loop
\* consumes one enumerated code point per execution of its body, also when the
\* code point is at or above the ceiling, and after the constructor such a code
\* point is in no range, width or sheet while every lower code point has the
\* glyph index it has among the in-range code points alone.
C1_OutOfRangeSkipped ==
  /\ iters <= Len(face.chars)
  /\ Constructed =>
       /\ \A c \in Range(face.chars) :
            ~InRange(c) =>
              /\ c \notin Keys(faceMap)
              /\ \A i \in DOMAIN cmaps : ~(cmaps[i].codeBegin <= c /\ c <= cmaps[i].codeEnd)
              /\ c \notin Range(widthCodes)
              /\ \A i \in DOMAIN sheetData : \A cell \in sheetData[i].cells : cell[2] # c
       /\ \A c \in Keys(faceMap) :
            faceMap[c].cfntIndex =
              Cardinality({i \in 1..(PosIn(face.chars, c) - 1) : InRange(face.chars[i])})

C3_WidthPerGlyphIndex ==
  Constructed /\ Ascending(face.chars) =>
    /\ Len(widths) = Cardinality(Keys(faceMap))
    /\ \A c \in Keys(faceMap) :
         /\ faceMap[c].cfntIndex + 1 \in DOMAIN widths
         /\ widths[faceMap[c].cfntIndex + 1] = CharWidthInfo(MetricsOfCode(c))

\* C4: after the constructor numSheets is ceil(G / 170) for G successfully
\* rasterized glyphs (stated for the faces enumerated in ascending order).
C4_SheetCount ==
  Constructed /\ Ascending(face.chars) =>
    numSheets = (Len(widths) + CellsPerSheet - 1) \div CellsPerSheet

\* C5: serialize trips no layout assertion: when a section starts the length
\* of the output is the precomputed offset of that section, and the finished
\* buffer has the length fileSize that the container header stores.
U16At(bytes, at) == bytes[at + 1] + U8 * bytes[at + 2]
U32At(bytes, at) ==
  bytes[at + 1] + U8 * bytes[at + 2] + U16 * bytes[at + 3] + U16 * U8 * bytes[at + 4]

C5_LayoutAssertions ==
  /\ pc # "assert_failed"
  /\ pc = "finf" => OutSize = finfOffset
  /\ pc = "tglp" => OutSize = tglpOffset
  /\ pc = "cwdh" => OutSize = cwdhOffset
  /\ pc = "cmap" /\ si <= Len(cmaps) => OutSize = cmapOffset
  /\ pc = "cmap" /\ si > Len(cmaps) => OutSize = sheetOffset
  /\ BufferBuilt => OutSize = fileSize /\ U32At(output, 12) = fileSize

C5_Witness ==
  /\ pc = "open"
  /\ Len(cmaps) >= 2
  /\ Len(widths) >= 2
  /\ sheetOut > 0

\* C6: in the finished buffer the character-map blocks are chained in range
\* order: the map offset of the font-info block less 8 is the start of the
\* first block, the next-offset of each block but the last less 8 is the start
\* of the following block, the last block stores 0, and the chain visits the
\* block of every range once.
FinfMapField == CfntHeaderSize + 24
CmapNextField == 16

\* the block starts met by following the stored offsets, at most n of them;
\* -1 marks an offset that leaves the written blocks
RECURSIVE Chain(_, _)
Chain(stored, n) ==
  IF stored = 0 \/ n = 0 THEN <<>>
  ELSE LET at == stored - OffsetBias IN
       IF at < 0 \/ at + CmapHeaderSize + CmapDirectSize > Len(output) THEN <<-1>>
       ELSE <<at>> \o Chain(U32At(output, at + CmapNextField), n - 1)

IsBlockOf(at, cmap) ==
  /\ at >= 0
  /\ SubSeq(output, at + 1, at + 4) = CMAP_MAGIC
  /\ U16At(output, at + 8) = cmap.codeBegin
  /\ U16At(output, at + 10) = cmap.codeEnd
  /\ U16At(output, at + 20) = cmap.data.offset

C6_CmapChain ==
  BufferBuilt /\ cmaps # <<>> =>
    LET chain == Chain(U32At(output, FinfMapField), Len(cmaps) + 1) IN
    /\ Len(chain) = Len(cmaps)
    /\ \A i \in DOMAIN chain : IsBlockOf(chain[i], cmaps[i])
    /\ \A i, j \in DOMAIN chain : i < j => chain[i] < chain[j]
    /\ U32At(output, chain[Len(chain)] + CmapNextField) = 0

C6_Witness ==
  /\ pc = "write"
  /\ Len(cmaps) = 3

\* C7: the range-building loop emits one range per maximal run of consecutive
\* indexed code points, ascending and non-overlapping, a new range starting at
\* the first code point and at every code point that is not one greater than
\* its predecessor; the Direct payload of a range is the glyph index of its
\* first code point at every moment, also after the range was extended.
RunStarts == {c \in Keys(faceMap) : c - 1 \notin Keys(faceMap)}

C7_MaximalRuns ==
  /\ \A i \in DOMAIN cmaps :
       /\ cmaps[i].mappingMethod = CMAP_TYPE_DIRECT
       /\ cmaps[i].codeBegin \in Keys(faceMap)
       /\ cmaps[i].data.offset = faceMap[cmaps[i].codeBegin].cfntIndex
  /\ RangesBuilt =>
       /\ Len(cmaps) = Cardinality(RunStarts)
       /\ \A i \in DOMAIN cmaps :
            /\ cmaps[i].codeBegin \in RunStarts
            /\ \A c \in cmaps[i].codeBegin..cmaps[i].codeEnd : c \in Keys(faceMap)
            /\ cmaps[i].codeEnd + 1 \notin Keys(faceMap)
            /\ cmaps[i].codeBegin <= cmaps[i].codeEnd
       /\ \A i, j \in DOMAIN cmaps : i < j => cmaps[i].codeEnd < cmaps[j].codeBegin
       /\ \A c \in Keys(faceMap) :
            \E i \in DOMAIN cmaps : cmaps[i].codeBegin <= c /\ c <= cmaps[i].codeEnd

C7_Witness ==
  /\ pc = "glyph"
  /\ Len(cmaps) = 2
  /\ \E i \in DOMAIN cmaps : cmaps[i].codeEnd - cmaps[i].codeBegin + 1 = 2

\* C8 as claimed: every fwrite call is given the suffix of the buffer that is
\* not yet written; a call that is followed by another one accepted at least
\* one byte and the accepted bytes never exceed the buffer, so the loop ends;
\* serialize returns true exactly when all bytes were accepted and fclose
\* succeeded; a zero-byte write or a write with the stream error flag set ends
\* the loop with the result false.
RECURSIVE Accepted(_)
Accepted(cs) == IF cs = <<>> THEN 0 ELSE cs[Len(cs)].rc + Accepted(SubSeq(cs, 1, Len(cs) - 1))

C8_ErrorFlagFails ==
  /\ \A i \in DOMAIN calls :
       /\ calls[i].ptr = Accepted(SubSeq(calls, 1, i - 1))
       /\ calls[i].count = OutSize - calls[i].ptr
       /\ calls[i].count > 0
       /\ i < Len(calls) => calls[i].rc >= 1
       /\ calls[i].rc = 0 \/ calls[i].err =>
            /\ i = Len(calls)
            /\ pc = "returned" => result = "false" /\ fp = "closed"
  /\ Accepted(calls) <= OutSize
  /\ fp # "none" /\ pc = "write" => offset = Accepted(calls) /\ result = "none"
  /\ fp # "none" /\ pc = "returned" =>
       /\ fp = "closed"
       /\ result = "true" <=> (Accepted(calls) = OutSize /\ closeRc = "ok")

\* C8 as amended: as claimed, but the stream error flag is looked at only after
\* a short write: a zero-byte write, or a short write with the flag set, ends
\* the loop with the result false; after a write that accepted the whole
\* suffix the flag is not looked at and the result is that of fclose.
C8_WriteLoop ==
  /\ \A i \in DOMAIN calls :
       /\ calls[i].ptr = Accepted(SubSeq(calls, 1, i - 1))
       /\ calls[i].count = OutSize - calls[i].ptr
       /\ calls[i].count > 0
       /\ i < Len(calls) =>
            calls[i].rc >= 1 /\ calls[i].rc < calls[i].count /\ ~calls[i].err
       /\ calls[i].rc = 0 \/ (calls[i].err /\ calls[i].rc < calls[i].count) =>
            i = Len(calls) /\ pc = "returned" /\ result = "false" /\ fp = "closed"
       /\ calls[i].rc = calls[i].count =>
            /\ i = Len(calls)
            /\ pc = "returned" => (result = "true" <=> closeRc = "ok")
  /\ Accepted(calls) <= OutSize
  /\ fp # "none" /\ pc = "write" => offset = Accepted(calls) /\ result = "none"
  /\ fp # "none" /\ pc = "returned" =>
       /\ fp = "closed"
       /\ result = "true" <=> (Accepted(calls) = OutSize /\ closeRc = "ok")

C8_Witness ==
  /\ pc = "returned"
  /\ result = "true"
  /\ Len(calls) = 3
  /\ calls[1].rc = 1

\* C9 as claimed: each recorded metric is the rasterizer's 1/64-unit value
\* divided by 64 with truncation toward zero, then narrowed to its 8-bit field.
TruncDiv64(v) == IF v >= 0 THEN v \div 64 ELSE -((-v) \div 64)
\* the largest q with 64 * q <= v
Floor64(v) ==
  CHOOSE q \in ((v \div 64) - 2)..((v \div 64) + 2) : 64 * q <= v /\ v < 64 * q + 64

C9_MetricsTruncated ==
  \A i \in DOMAIN widths :
    LET m == MetricsOfCode(widthCodes[i]) IN
    /\ widths[i].left = NarrowS8(TruncDiv64(m.horiBearingX))
    /\ widths[i].glyphWidth = NarrowU8(TruncDiv64(m.width))
    /\ widths[i].charWidth = NarrowU8(TruncDiv64(m.horiAdvance))

\* C9 as amended: each recorded metric is the rasterizer's 1/64-unit value
\* divided by 64 and rounded toward negative infinity (which is truncation for
\* the non-negative values only), then narrowed to its 8-bit field.
C9_MetricsFloored ==
  \A i \in DOMAIN widths :
    LET m == MetricsOfCode(widthCodes[i]) IN
    /\ widths[i].left = NarrowS8(Floor64(m.horiBearingX))
    /\ widths[i].glyphWidth = NarrowU8(Floor64(m.width))
    /\ widths[i].charWidth = NarrowU8(Floor64(m.horiAdvance))

C9_Witness ==
  /\ Len(widths) >= 2
  /\ \E i \in DOMAIN widths :
       LET m == MetricsOfCode(widthCodes[i]) IN
       m.horiBearingX < 0 /\ m.horiBearingX % 64 # 0 /\ m.horiAdvance \div 64 > 255

\* C10: every successfully rasterized glyph with glyph index g is composited
\* while a sheet is in progress, into cell g mod 170 (column (g mod 170) mod 10,
\* row (g mod 170) / 10, inside the canvas) of sheet floor(g / 170) in creation
\* order, and no two glyphs are composited into the same cell of the same sheet
\* (stated for the faces enumerated in ascending order, whatever loads fail).
C10_CellPlacement ==
  Ascending(face.chars) =>
  /\ pc \notin {"aborted", "crashed"}
  /\ Len(widths) = Cardinality(placed)
  /\ \A p \in placed :
       /\ p[2] = p[1] \div CellsPerSheet
       /\ p[3] = ((p[1] % CellsPerSheet) % Columns) * CellWidth
       /\ p[4] = ((p[1] % CellsPerSheet) \div Columns) * CellHeight
       /\ p[3] + CellWidth <= SheetWidth
       /\ p[4] + CellHeight <= SheetHeight
  /\ \A p, q \in placed : p[2] = q[2] /\ p[3] = q[3] /\ p[4] = q[4] => p = q
====
